---- MODULE Spec2Model ----
\* A model of the JACL decode engine of serde_jacl (src/src/de.rs and
\* src/src/parsing/*.rs): the scanners, the root-shape prober, the
\* shape-directed decode operations, the container iteration protocol and the
\* positional error reporter.
\*
\* Text is a sequence of characters, each character a one-character string.
\* A multi-byte character is written as the token "U+00E9" (two bytes in UTF-8).
\*
\* Results of calls are handed on as operator arguments rather than bound by
\* LET, so that every operator is used once where it is needed.
EXTENDS Integers, Sequences, FiniteSets, TLC

VARIABLES
    case,    \* the call's arguments [doc, ty], with the family the document was drawn from
    pc,      \* position in from_str: "start", "run", "finish", "done"
    d,       \* the Deserializer: [begin, pre, input, post]
    stack,   \* the pending visitor frames, innermost first
    result   \* what from_str returned: [kind, val, line, col]

vars == <<case, pc, d, stack, result>>

-----------------------------------------------------------------------------
\* Text helpers

Drop(s, n) == SubSeq(s, n + 1, Len(s))
Take(s, n) == SubSeq(s, 1, n)
StartsWith(s, p) == Len(s) >= Len(p) /\ SubSeq(s, 1, Len(p)) = p

MinOf(S) == CHOOSE x \in S : \A y \in S : x <= y
MaxOf(S) == CHOOSE x \in S : \A y \in S : y <= x
MinOrElse(S, dflt) == IF S = {} THEN dflt ELSE MinOf(S)

\* Length of the longest prefix of s whose characters are all in S.
LeadRun(s, S) == MinOrElse({i \in 1..Len(s) : s[i] \notin S}, Len(s) + 1) - 1

\* Offset of the first occurrence of p in s, or -1.
FindSub(s, p) ==
    MinOrElse({i \in 0..(Len(s) - Len(p)) : SubSeq(s, i + 1, i + Len(p)) = p}, -1)

RECURSIVE Without(_, _)
Without(s, c) ==
    IF s = <<>> THEN <<>>
    ELSE IF Head(s) = c THEN Without(Tail(s), c)
    ELSE <<Head(s)>> \o Without(Tail(s), c)

None == ""

DigitChars == <<"0", "1", "2", "3", "4", "5", "6", "7", "8", "9">>
Digits == {"0", "1", "2", "3", "4", "5", "6", "7", "8", "9"}
DigitVal(c) == (CHOOSE i \in 1..10 : DigitChars[i] = c) - 1
Dec(ns) == [i \in 1..Len(ns) |-> DigitChars[ns[i] + 1]]

WhitespaceChars == {" ", ",", "\r", "\n", "\t"}
DelimiterChars == {":", "(", ")", "{", "}", "[", "]"}
ALPHA ==
    {"q", "w", "e", "r", "t", "y", "u", "i", "o", "p", "a", "s", "d", "f", "g",
     "h", "j", "k", "l", "z", "x", "c", "v", "b", "n", "m", "_"}
ALPHANUM == ALPHA \cup Digits

\* char::is_whitespace on the characters of the model's alphabet.
IsWhitespace(c) == c \in {" ", "\t", "\n", "\r"}

\* UTF-8 length of a character.
ByteLen(c) == IF c = "U+00E9" THEN 2 ELSE 1

RECURSIVE Bytes(_)
Bytes(s) == IF s = <<>> THEN 0 ELSE ByteLen(Head(s)) + Bytes(Tail(s))

-----------------------------------------------------------------------------
\* nom parsers: each returns [ok, rest, out]; out is the recognised value.

Fail(i) == [ok |-> FALSE, rest |-> i, out |-> <<>>]
Done(rest, out) == [ok |-> TRUE, rest |-> rest, out |-> out]

\* The input after a comment whose closing text of length n starts at
\* offset k behind the two opening characters; failure when there is none.
Closed(i, k, n) == IF k < 0 THEN Fail(i) ELSE Done(Drop(i, 2 + k + n), <<>>)

multiline_comment(i) ==
    IF StartsWith(i, <<"/", "*">>)
    THEN Closed(i, FindSub(Drop(i, 2), <<"*", "/">>), 2)
    ELSE Fail(i)

eol_comment(i) ==
    IF StartsWith(i, <<"/", "/">>)
    THEN Closed(i, FindSub(Drop(i, 2), <<"\n">>), 1)
    ELSE Fail(i)

Many1(i, n, out) == IF n = 0 THEN Fail(i) ELSE Done(Drop(i, n), out)

whitespace(i) == Many1(i, LeadRun(i, WhitespaceChars), <<>>)

delimiter(i) ==
    IF i # <<>> /\ Head(i) \in DelimiterChars THEN Done(Tail(i), Head(i))
    ELSE Fail(i)

IdentOf(i, n) ==
    IF n = 0 THEN Fail(i)
    ELSE Many1(i, n + LeadRun(Drop(i, n), ALPHANUM), <<>>)

Recognized(i, r) == IF r.ok THEN Done(r.rest, Take(i, Len(i) - Len(r.rest))) ELSE r

identifier(i) == Recognized(i, IdentOf(i, LeadRun(i, ALPHA)))

boolean(i) ==
    IF StartsWith(i, <<"f", "a", "l", "s", "e">>) THEN Done(Drop(i, 5), <<"false">>)
    ELSE IF StartsWith(i, <<"t", "r", "u", "e">>) THEN Done(Drop(i, 4), <<"true">>)
    ELSE Fail(i)

null(i) ==
    IF StartsWith(i, <<"n", "u", "l", "l">>) THEN Done(Drop(i, 4), <<>>)
    ELSE Fail(i)

\* alt((multiline_comment, eol_comment, whitespace)): the first that matches.
Alt3(a, b, c) == IF a.ok THEN a ELSE IF b.ok THEN b ELSE c

SkipOne(i) == Alt3(multiline_comment(i), eol_comment(i), whitespace(i))

\* many0 of it: the input after every comment and separator run in front.
RECURSIVE SkipRest(_)
SkipMore(r) == IF r.ok THEN SkipRest(r.rest) ELSE r.rest
SkipRest(i) == SkipMore(SkipOne(i))

-----------------------------------------------------------------------------
\* Integer widths and FromStr

Signed(w) == w \in {"i8", "i16", "i32", "i64"}

\* Largest magnitude of a non-negative and of a negative value of each width.
MaxMag(w) ==
    CASE w = "i8"  -> Dec(<<1, 2, 7>>)
      [] w = "u8"  -> Dec(<<2, 5, 5>>)
      [] w = "i16" -> Dec(<<3, 2, 7, 6, 7>>)
      [] w = "u16" -> Dec(<<6, 5, 5, 3, 5>>)
      [] w = "i32" -> Dec(<<2, 1, 4, 7, 4, 8, 3, 6, 4, 7>>)
      [] w = "u32" -> Dec(<<4, 2, 9, 4, 9, 6, 7, 2, 9, 5>>)
      [] w = "i64" -> Dec(<<9, 2, 2, 3, 3, 7, 2, 0, 3, 6, 8, 5, 4, 7, 7, 5, 8, 0, 7>>)
      [] w = "u64" -> Dec(<<1, 8, 4, 4, 6, 7, 4, 4, 0, 7, 3, 7, 0, 9, 5, 5, 1, 6, 1, 5>>)

MinMag(w) ==
    CASE w = "i8"  -> Dec(<<1, 2, 8>>)
      [] w = "i16" -> Dec(<<3, 2, 7, 6, 8>>)
      [] w = "i32" -> Dec(<<2, 1, 4, 7, 4, 8, 3, 6, 4, 8>>)
      [] w = "i64" -> Dec(<<9, 2, 2, 3, 3, 7, 2, 0, 3, 6, 8, 5, 4, 7, 7, 5, 8, 0, 8>>)

\* A digit string without its leading zeros ("0" for zero).
DropZeros(ds, z) == IF z = Len(ds) THEN <<"0">> ELSE Drop(ds, z)
StripZeros(ds) == DropZeros(ds, LeadRun(ds, {"0"}))

\* a <= b for two digit strings without leading zeros.
FirstDiff(a, b) == MinOrElse({i \in 1..Len(a) : a[i] # b[i]}, 0)
LessAt(a, b, j) == j = 0 \/ DigitVal(a[j]) < DigitVal(b[j])
MagLE(a, b) ==
    Len(a) < Len(b) \/ (Len(a) = Len(b) /\ LessAt(a, b, FirstDiff(a, b)))

\* <T as FromStr>::from_str for the integer types on "-"? digit+ : [ok, out];
\* out is the value in canonical decimal form. An unsigned type takes no sign.
NegFromStr(mag, w) ==
    [ok |-> Signed(w) /\ MagLE(mag, MinMag(w)),
     out |-> IF mag = <<"0">> THEN mag ELSE <<"-">> \o mag]
\* A from_str that accepts every magnitude, whatever the width (a faulty variant of PosFromStr).
PosFromStrUnchecked(mag, w) == [ok |-> TRUE, out |-> mag]
PosFromStr(mag, w) == [ok |-> MagLE(mag, MaxMag(w)), out |-> mag]

IntFromStr(txt, w) ==
    IF Head(txt) = "-" THEN NegFromStr(StripZeros(Tail(txt)), w)
    ELSE PosFromStr(StripZeros(txt), w)

\* recognize(pair(opt('-'), many1(terminated(digit, many0('_'))))): the
\* length recognised, 0 when there is no digit.
SignLen(i, signs) == IF i # <<>> /\ Head(i) \in signs THEN 1 ELSE 0
DigitsLen(b) ==
    IF b # <<>> /\ Head(b) \in Digits THEN LeadRun(b, Digits \cup {"_"}) ELSE 0
SignedLen(s, n) == IF n = 0 THEN 0 ELSE s + n
IntBodyLen(i, s) == SignedLen(s, DigitsLen(Drop(i, s)))
IntTextLen(i) == IntBodyLen(i, SignLen(i, {"-"}))

\* map_res(.., |out| T::from_str(&str::replace(&out, "_", "")))
Converted(i, n, conv) == IF conv.ok THEN Done(Drop(i, n), conv.out) ELSE Fail(i)
IntegerOf(i, w, n) ==
    IF n = 0 THEN Fail(i)
    ELSE Converted(i, n, IntFromStr(Without(Take(i, n), "_"), w))

integer(i, w) == IntegerOf(i, w, IntTextLen(i))

-----------------------------------------------------------------------------
\* Decoded values: [k, v, e]. k is the kind; v the payload (a character
\* sequence for scalars, a sequence of values for "seq", a function from keys
\* to values for "map" and "struct"); e is the decimal exponent of a float.

Val(k, v) == [k |-> k, v |-> v, e |-> 0]
NoVal == Val("none", <<>>)
VInt(txt) == Val("int", txt)
VBool(b) == Val("bool", IF b THEN <<"true">> ELSE <<"false">>)
VStr(s) == Val("str", s)
VFlt(m, e) == [k |-> "flt", v |-> m, e |-> e]
VNone == Val("absent", <<>>)
VSome(x) == Val("some", <<x>>)
VSeq(xs) == Val("seq", xs)
VMap(f) == Val("map", f)
VStruct(f) == Val("struct", f)
EmptyMap == [x \in {} |-> NoVal]

\* A short digit string as a number (saturating: f64 overflows to inf there).
RECURSIVE DecNat(_)
DecNat(ds) ==
    IF ds = <<>> THEN 0
    ELSE IF Len(ds) > 6 THEN 999999
    ELSE DecNat(Take(ds, Len(ds) - 1)) * 10 + DigitVal(ds[Len(ds)])

TrailZeros(ds) == Len(ds) - MaxOf({i \in 1..Len(ds) : ds[i] # "0"})

\* <T as FromStr>::from_str for f32/f64 on the decimal grammar
\*   sign? (digit* ("." digit*)?) ((e|E) sign? digit+)?   with one digit at least:
\* [ok, out]; out is the value as sign and mantissa digits with a decimal exponent.
Trimmed(neg, mant, ex, tz) ==
    VFlt((IF neg THEN <<"-">> ELSE <<>>) \o Take(mant, Len(mant) - tz), ex + tz)
Normal(neg, mant, ex) ==
    IF mant = <<"0">> THEN VFlt(<<"0">>, 0)
    ELSE Trimmed(neg, mant, ex, TrailZeros(mant))
FloatVal(ok, neg, digits, ex) ==
    [ok |-> ok /\ digits # <<>>, out |-> Normal(neg, StripZeros(digits), ex)]
ExpVal(s4, esg) ==
    IF esg = 1 /\ Head(s4) = "-" THEN 0 - DecNat(Tail(s4)) ELSE DecNat(Drop(s4, esg))
AllDigits(s) == s # <<>> /\ LeadRun(s, Digits) = Len(s)
FloatExpDigits(neg, digits, fp, s4, esg) ==
    IF AllDigits(Drop(s4, esg)) THEN FloatVal(TRUE, neg, digits, ExpVal(s4, esg) - fp)
    ELSE FloatVal(FALSE, neg, digits, 0)
FloatExp(neg, digits, fp, s3) ==
    IF s3 = <<>> THEN FloatVal(TRUE, neg, digits, 0 - fp)
    ELSE IF Head(s3) \in {"e", "E"}
    THEN FloatExpDigits(neg, digits, fp, Tail(s3), SignLen(Tail(s3), {"-", "+"}))
    ELSE FloatVal(FALSE, neg, digits, 0)
FloatFrac(neg, int, s2, fp) == FloatExp(neg, int \o Take(s2, fp), fp, Drop(s2, fp))
FloatDot(neg, int, s2) ==
    IF s2 # <<>> /\ Head(s2) = "."
    THEN FloatFrac(neg, int, Tail(s2), LeadRun(Tail(s2), Digits))
    ELSE FloatExp(neg, int, 0, s2)
FloatInt(neg, s1, ip) == FloatDot(neg, Take(s1, ip), Drop(s1, ip))
FloatBody(neg, s1) == FloatInt(neg, s1, LeadRun(s1, Digits))

FloatFromStr(txt) ==
    FloatBody(txt # <<>> /\ Head(txt) = "-", Drop(txt, SignLen(txt, {"-", "+"})))

\* Length matched by the nested integer::<i64>, or -1.
Matched(i, r) == IF r.ok THEN Len(i) - Len(r.rest) ELSE -1
IntLen(i) == Matched(i, integer(i, "i64"))

\* opt(..): the length matched, 0 when the inner parser failed.
Opt(n) == IF n < 0 THEN 0 ELSE n
\* tuple((.., ..)): the sum of the lengths, -1 when a part failed.
Then(a, b) == IF a < 0 \/ b < 0 THEN -1 ELSE a + b
\* one_of(set): 1 or -1.
OneOf(i, set) == IF i # <<>> /\ Head(i) \in set THEN 1 ELSE -1

\* tuple((one_of("eE"), opt(one_of("+-")), integer::<i64>))
ExpSigned(i, sg) == Then(sg, IntLen(Drop(i, sg)))
ExpTail(i) == ExpSigned(i, Opt(OneOf(i, {"+", "-"})))
ExpLen(i) == Then(OneOf(i, {"e", "E"}), ExpTail(Drop(i, 1)))

\* The four alternatives of float: the length each recognises, or -1.
\* Case one: .42
Case1Exp(i, a) == IF a < 0 THEN -1 ELSE a + Opt(ExpLen(Drop(i, a)))
Case1Int(i, dot) == IF dot < 0 THEN -1 ELSE Case1Exp(i, Then(dot, IntLen(Drop(i, dot))))
FloatCase1(i) == Case1Int(i, OneOf(i, {"."}))

\* Case two: 42e42 and 42.42e42
FracLen(i) == Then(OneOf(i, {"."}), IntLen(Drop(i, 1)))
Case2Exp(i, n) == IF n < 0 THEN -1 ELSE Then(n, ExpLen(Drop(i, n)))
Case2Frac(i, a) == IF a < 0 THEN -1 ELSE Case2Exp(i, a + Opt(FracLen(Drop(i, a))))
FloatCase2(i) == Case2Frac(i, IntLen(i))

\* Case three: 42. and 42.42
Case3Frac(i, n) == IF n < 0 THEN -1 ELSE n + Opt(IntLen(Drop(i, n)))
Case3Dot(i, a) == IF a < 0 THEN -1 ELSE Case3Frac(i, Then(a, OneOf(Drop(i, a), {"."})))
FloatCase3(i) == Case3Dot(i, IntLen(i))

\* Case four: 42
FloatCase4(i) == IntLen(i)

\* alt((..)): the first alternative that matches.
Alt4(a, b, c, e) == IF a >= 0 THEN a ELSE IF b >= 0 THEN b ELSE IF c >= 0 THEN c ELSE e

\* map_res(alt((..)), |out| T::from_str(out))
FloatOf(i, n) ==
    IF n < 0 THEN Fail(i) ELSE Converted(i, n, FloatFromStr(Take(i, n)))

float(i) == FloatOf(i, Alt4(FloatCase1(i), FloatCase2(i), FloatCase3(i), FloatCase4(i)))

\* parsing::string::parse_string: the loop over the characters with its
\* escape flag; a raw line break is stored as its two-character escape.
\* A store that writes both line breaks as \n (a faulty variant of Stored).
StoredAsLF(c) == IF c \in {"\n", "\r"} THEN <<"\\", "n">> ELSE <<c>>
Stored(c) ==
    IF c = "\n" THEN <<"\\", "n">>
    ELSE IF c = "\r" THEN <<"\\", "r">>
    ELSE <<c>>

Escp(c, escp) ==
    IF c = "\\" /\ ~escp THEN TRUE
    ELSE IF ~IsWhitespace(c) THEN FALSE
    ELSE escp

RECURSIVE StrLoop(_, _, _, _)
StrChar(input, idx, escp, s, c) ==
    IF c # "\"" /\ idx = 1 THEN Fail(input)
    ELSE IF c = "\"" /\ ~escp /\ idx # 1 THEN Done(Drop(input, idx), s)
    ELSE StrLoop(input, idx + 1, Escp(c, escp), IF idx = 1 THEN s ELSE s \o Stored(c))
StrLoop(input, idx, escp, s) ==
    IF idx > Len(input) THEN Fail(input)
    ELSE StrChar(input, idx, escp, s, input[idx])

parse_string(input) == StrLoop(input, 1, FALSE, <<>>)

\* escape8259::unescape: [ok, out].
Escapes == {"\"", "\\", "/", "b", "f", "n", "r", "t"}
Unescaped(c) ==
    CASE c = "n" -> "\n" [] c = "r" -> "\r" [] c = "t" -> "\t"
      [] c = "b" -> "U+0008" [] c = "f" -> "\f" [] OTHER -> c

RECURSIVE unescape(_)
Cons(c, r) == [ok |-> r.ok, out |-> <<c>> \o r.out]
unescape(s) ==
    IF s = <<>> THEN [ok |-> TRUE, out |-> <<>>]
    ELSE IF Head(s) # "\\" THEN Cons(Head(s), unescape(Tail(s)))
    ELSE IF Len(s) < 2 \/ s[2] \notin Escapes THEN [ok |-> FALSE, out |-> <<>>]
    ELSE Cons(Unescaped(s[2]), unescape(Drop(s, 2)))

\* parsing::string::string, with the unescape failure folded into the result.
Unescape(input, p, u) == IF u.ok THEN Done(p.rest, u.out) ELSE Fail(input)
StringOf(input, p) == IF p.ok THEN Unescape(input, p, unescape(p.out)) ELSE Fail(input)
string(input) == StringOf(input, parse_string(input))

-----------------------------------------------------------------------------
\* The Deserializer (cursor) and the positional error reporter

NewDeserializer(pre, data, post) ==
    [begin |-> data, pre |-> pre, input |-> data, post |-> post]

\* str::rfind of the remaining input in the source text: the byte offset of
\* its last occurrence.
RFind(begin, input) ==
    Bytes(Take(begin, MaxOf({i \in 0..(Len(begin) - Len(input)) :
                                SubSeq(begin, i + 1, i + Len(input)) = input})))

\* The first loop of JaclDeError::new: one step per character of the source,
\* stopping when the character count equals the byte offset.
RECURSIVE LineColLoop(_, _, _, _, _)
LineColLoop(chars, index, curr, line, col) ==
    IF chars = <<>> \/ curr = index THEN [line |-> line, col |-> col]
    ELSE IF Head(chars) = "\n"
         THEN LineColLoop(Tail(chars), index, curr + 1, line + 1, 0)
         ELSE LineColLoop(Tail(chars), index, curr + 1, line, col + 1)

JaclDeErrorNew(c) == LineColLoop(c.begin, RFind(c.begin, c.input), 0, 1, 0)

NoPos == [line |-> 0, col |-> 0]

\* The outcome of one Deserializer method: st is "ok", "err" or "panic".
ROk(c, v) == [st |-> "ok", d |-> c, val |-> v, pos |-> NoPos]
RErr(c, at) == [st |-> "err", d |-> c, val |-> NoVal, pos |-> JaclDeErrorNew(at)]
RPanic(c) == [st |-> "panic", d |-> c, val |-> NoVal, pos |-> NoPos]

\* skip_non_tokens: the assertion on pre, then the separators and comments.
SkipPanics(c) == c.pre # None
skip_non_tokens(c) == [c EXCEPT !.input = SkipRest(c.input)]

\* The value a scanner hands back for what its parser recognised.
ValOf(kind, out) ==
    CASE kind = "flt" -> out
      [] kind = "absent" -> VNone
      [] OTHER -> Val(kind, out)

\* The shape shared by parse_null, parse_bool, parse_int, parse_float,
\* parse_string and parse_identifier: skip, scan, build the value or the
\* error at the scan position, skip again.
ScannedAt(c1, r, kind) ==
    IF r.ok THEN ROk(skip_non_tokens([c1 EXCEPT !.input = r.rest]), ValOf(kind, r.out))
    ELSE RErr(skip_non_tokens(c1), c1)

Scanned(c, r, kind) ==
    IF SkipPanics(c) THEN RPanic(c) ELSE ScannedAt(skip_non_tokens(c), r, kind)

Skipped(c) == SkipRest(c.input)

parse_null(c) == Scanned(c, null(Skipped(c)), "absent")
parse_bool(c) == Scanned(c, boolean(Skipped(c)), "bool")
parse_int(c, w) == Scanned(c, integer(Skipped(c), w), "int")
parse_float(c) == Scanned(c, float(Skipped(c)), "flt")
deser_parse_string(c) == Scanned(c, string(Skipped(c)), "str")
parse_identifier(c) == Scanned(c, identifier(Skipped(c)), "str")

DelimOf(c1, r) ==
    IF r.ok THEN ROk(skip_non_tokens([c1 EXCEPT !.input = r.rest]), VStr(<<r.out>>))
    ELSE RErr(skip_non_tokens(c1), c1)

DelimAt(c1) ==
    IF Len(c1.input) = 0
    THEN IF c1.post # None
         THEN ROk([c1 EXCEPT !.post = None], VStr(<<c1.post>>))
         ELSE RErr(c1, c1)
    ELSE DelimOf(c1, delimiter(c1.input))

parse_delim(c) ==
    IF c.pre # None THEN ROk([c EXCEPT !.pre = None], VStr(<<c.pre>>))
    ELSE DelimAt(skip_non_tokens(c))

\* next_char: the pending virtual open, else the next character, else the
\* pending virtual close, else an error.
next_char(c) ==
    IF c.pre # None THEN ROk(c, VStr(<<c.pre>>))
    ELSE IF c.input # <<>> THEN ROk(c, VStr(<<Head(c.input)>>))
    ELSE IF c.post # None THEN ROk(c, VStr(<<c.post>>))
    ELSE RErr(c, c)

\* The character a successful parse_delim or next_char returned.
Ch(r) == r.val.v[1]

-----------------------------------------------------------------------------
\* The root-shape prober

Tried(r) == [ok |-> r.st = "ok", d |-> r.d]
TryNull(s) == IF s.st = "ok" THEN Tried(s) ELSE Tried(parse_null(s.d))
TryString(i) == IF i.st = "ok" THEN Tried(i) ELSE TryNull(deser_parse_string(i.d))
TryInt(f) == IF f.st = "ok" THEN Tried(f) ELSE TryString(parse_int(f.d, "i64"))
TryFloat(b) == IF b.st = "ok" THEN Tried(b) ELSE TryInt(parse_float(b.d))

try_parse_literal(c) == TryFloat(parse_bool(c))

\* Deserializer::from_str: the virtual delimiters chosen for the document.
NoWrap == <<None, None>>
\* A prober that never installs the map brackets (a faulty variant of WrapDelim).
WrapDelimNever(dl) == NoWrap
WrapDelim(dl) == IF dl.st = "ok" /\ Ch(dl) = ":" THEN <<"{", "}">> ELSE NoWrap
WrapSecond(l2) == IF l2.ok THEN <<"[", "]">> ELSE WrapDelim(parse_delim(l2.d))
WrapIdent(id) == IF id.st = "ok" THEN <<"(", ")">> ELSE NoWrap
WrapFirst(l1) ==
    IF l1.ok THEN WrapSecond(try_parse_literal(l1.d))
    ELSE WrapIdent(parse_identifier(l1.d))

Wrap(input) == WrapFirst(try_parse_literal(NewDeserializer(None, input, None)))

\* A prober that hands back its cursor past the leading separators (a faulty
\* variant of Wrapped).
WrappedAfterSkip(input, w) ==
    [NewDeserializer(w[1], input, w[2]) EXCEPT !.input = SkipRest(input)]
Wrapped(input, w) == NewDeserializer(w[1], input, w[2])
DeserializerFromStr(input) == Wrapped(input, Wrap(input))

-----------------------------------------------------------------------------
\* Target shapes: the consumer's type, which picks the deserialize_* method
\* and the visitor handed to it.

TBool == [t |-> "bool"]
TInt(w) == [t |-> "int", w |-> w]
TFloat == [t |-> "float"]
TString == [t |-> "string"]
TIdent == [t |-> "ident"]
TOption(x) == [t |-> "option", of |-> x]
TVec(x) == [t |-> "vec", of |-> x]
TTuple(xs) == [t |-> "tuple", of |-> xs]
TMap(x) == [t |-> "map", of |-> x]
TStruct(fs) == [t |-> "struct", fields |-> fs]
TValue == [t |-> "value"]
TLiteral == [t |-> "literal"]
TNumber == [t |-> "number"]
TIgnored == [t |-> "ignored"]
TEnum == [t |-> "enum"]
TUnit == [t |-> "unit"]
Field(n, x) == [name |-> n, ty |-> x]

\* The visit_* methods each visitor implements; any other visit falls to
\* serde's default, which builds its error with Error::custom.
Accepts(vis, kind) ==
    CASE vis.t = "value"   -> kind \in {"bool", "int", "flt", "str", "seq", "map"}
      [] vis.t = "literal" -> kind \in {"bool", "int", "flt", "str"}
      [] vis.t = "number"  -> kind \in {"int", "flt"}
      [] vis.t = "ignored" -> TRUE
      [] vis.t = "bool"    -> kind = "bool"
      [] vis.t = "int"     -> kind = "int"
      [] vis.t = "float"   -> kind \in {"flt", "int"}
      [] vis.t \in {"string", "ident"} -> kind = "str"
      [] vis.t = "option"  -> kind \in {"absent", "some"}
      [] vis.t \in {"vec", "tuple"} -> kind = "seq"
      [] vis.t \in {"map", "struct"} -> kind = "map"
      [] OTHER -> FALSE

FieldNames(ty) == {ty.fields[i].name : i \in 1..Len(ty.fields)}
FieldTy(ty, name) ==
    IF name \in FieldNames(ty)
    THEN ty.fields[CHOOSE i \in 1..Len(ty.fields) : ty.fields[i].name = name].ty
    ELSE TIgnored

ElemTy(vis, n) ==
    CASE vis.t = "vec" -> vis.of
      [] vis.t = "tuple" -> vis.of[n + 1]
      [] vis.t = "value" -> TValue
      [] OTHER -> TIgnored

KeyTy(vis) ==
    CASE vis.t = "struct" -> TIdent
      [] vis.t \in {"map", "value"} -> TString
      [] OTHER -> TIgnored

ValTy(vis, key) ==
    CASE vis.t = "struct" -> FieldTy(vis, key)
      [] vis.t = "map" -> vis.of
      [] vis.t = "value" -> TValue
      [] OTHER -> TIgnored

\* What a visitor hands back for the value v it was shown.
Visited(vis, v) == IF vis.t = "ignored" THEN Val("ignored", <<>>) ELSE v

-----------------------------------------------------------------------------
\* Frames: "de" (T::deserialize about to be called), "seq" (a visit_seq loop
\* about to call next_element), "key" / "value" (a visit_map loop about to
\* call next_key_seed / next_value_seed), "some" (Option's visit_some).

DeFrame(ty) == [f |-> "de", ty |-> ty, dt |-> "", acc |-> <<>>, key |-> <<>>]
SeqFrame(vis) == [f |-> "seq", ty |-> vis, dt |-> "SEQ", acc |-> <<>>, key |-> <<>>]
MapFrame(vis, dt) == [f |-> "key", ty |-> vis, dt |-> dt, acc |-> EmptyMap, key |-> <<>>]
SomeFrame == [f |-> "some", ty |-> TUnit, dt |-> "", acc |-> <<>>, key |-> <<>>]

\* The outcome of one step: st is "run" (frames remain), "ret" (the
\* outermost T::deserialize returned val), "err" or "panic".
ORun(c, stk) == [st |-> "run", d |-> c, stack |-> stk, val |-> NoVal, pos |-> NoPos]
ORet(c, v) == [st |-> "ret", d |-> c, stack |-> <<>>, val |-> v, pos |-> NoPos]
OErr(c, pos) == [st |-> "err", d |-> c, stack |-> <<>>, val |-> NoVal, pos |-> pos]
OPanic(c) == [st |-> "panic", d |-> c, stack |-> <<>>, val |-> NoVal, pos |-> NoPos]
\* A value returned to the frames waiting for it: a fixed-arity visitor
\* returns as soon as it has its last element.
RECURSIVE Deliver(_, _, _)

SeqGot(c, f, rest, acc) ==
    IF f.ty.t = "tuple" /\ Len(acc) = Len(f.ty.of)
    THEN Deliver(c, rest, VSeq(acc))
    ELSE ORun(c, <<[f EXCEPT !.acc = acc]>> \o rest)

KeyGot(c, f, rest, v) ==
    IF f.ty.t = "struct" /\ v.v \in DOMAIN f.acc THEN OPanic(c)
    ELSE ORun(c, <<[f EXCEPT !.f = "value", !.key = v.v]>> \o rest)

Keeps(f) ==
    f.ty.t \in {"map", "value"} \/ (f.ty.t = "struct" /\ f.key \in FieldNames(f.ty))

ValueGot(c, f, rest, v) ==
    ORun(c, <<[f EXCEPT !.f = "key", !.key = <<>>,
                        !.acc = IF Keeps(f) THEN (f.key :> v) @@ f.acc ELSE f.acc]>>
            \o rest)

Got(c, f, rest, v) ==
    CASE f.f = "some" -> Deliver(c, rest, VSome(v))
      [] f.f = "seq" -> SeqGot(c, f, rest, Append(f.acc, v))
      [] f.f = "key" -> KeyGot(c, f, rest, v)
      [] f.f = "value" -> ValueGot(c, f, rest, v)

Deliver(c, stk, v) ==
    IF stk = <<>> THEN ORet(c, v) ELSE Got(c, Head(stk), Tail(stk), v)

\* visitor.visit_*(value) on the outcome r of a scanner.
Leaf(r, vis, stk) ==
    IF r.st = "panic" THEN OPanic(r.d)
    ELSE IF r.st = "err" THEN OErr(r.d, r.pos)
    ELSE IF ~Accepts(vis, r.val.k) THEN OPanic(r.d)
    ELSE Deliver(r.d, stk, Visited(vis, r.val))

deserialize_bool(c, vis, stk) == Leaf(parse_bool(c), vis, stk)
deserialize_int(c, w, vis, stk) == Leaf(parse_int(c, w), vis, stk)
deserialize_float(c, vis, stk) == Leaf(parse_float(c), vis, stk)
deserialize_string(c, vis, stk) == Leaf(deser_parse_string(c), vis, stk)
deserialize_identifier(c, vis, stk) == Leaf(parse_identifier(c), vis, stk)

VisitNone(c2, vis, stk) ==
    IF Accepts(vis, "absent") THEN Deliver(c2, stk, Visited(vis, VNone))
    ELSE OPanic(c2)

VisitSome(c1, vis, stk) ==
    CASE vis.t = "option" -> ORun(c1, <<DeFrame(vis.of), SomeFrame>> \o stk)
      [] vis.t = "ignored" -> ORun(c1, <<DeFrame(TIgnored)>> \o stk)
      [] OTHER -> OPanic(c1)

OptionAt(c1, vis, stk) ==
    IF StartsWith(c1.input, <<"n", "u", "l", "l">>)
    THEN VisitNone([c1 EXCEPT !.input = Drop(c1.input, 4)], vis, stk)
    ELSE VisitSome(c1, vis, stk)

deserialize_option(c, vis, stk) ==
    IF SkipPanics(c) THEN OPanic(c) ELSE OptionAt(skip_non_tokens(c), vis, stk)

\* deserialize_seq, deserialize_map, deserialize_struct: one delimiter, which
\* must be the container's own opening bracket.
Opened(r, open, vis, kind, frame, stk) ==
    IF r.st = "err" THEN OErr(r.d, r.pos)
    ELSE IF Ch(r) # open THEN OErr(r.d, JaclDeErrorNew(r.d))
    ELSE IF ~Accepts(vis, kind) THEN OPanic(r.d)
    ELSE ORun(r.d, <<frame>> \o stk)

deserialize_seq(c, vis, stk) ==
    Opened(parse_delim(c), "[", vis, "seq", SeqFrame(vis), stk)

deserialize_map(c, vis, stk) ==
    Opened(parse_delim(c), "{", vis, "map", MapFrame(vis, "HASHMAP"), stk)

deserialize_struct(c, vis, stk) ==
    Opened(parse_delim(c), "(", vis, "map", MapFrame(vis, "STRUCT"), stk)

AnyNumber(c1, probe, vis, stk) ==
    IF ~probe.ok THEN OErr(c1, JaclDeErrorNew(c1))
    ELSE IF probe.rest # <<>> /\ Head(probe.rest) = "."
    THEN deserialize_float(c1, vis, stk)
    ELSE deserialize_int(c1, "i64", vis, stk)

AnyOf(c1, ch, vis, stk) ==
    CASE ch = "n" -> deserialize_option(c1, vis, stk)
      [] ch \in {"t", "f"} -> deserialize_bool(c1, vis, stk)
      [] ch = "\"" -> deserialize_string(c1, vis, stk)
      [] ch \in Digits \cup {"-"} -> AnyNumber(c1, integer(c1.input, "i64"), vis, stk)
      [] ch = "[" -> deserialize_seq(c1, vis, stk)
      [] ch = "{" -> deserialize_map(c1, vis, stk)
      [] ch = "(" -> deserialize_struct(c1, vis, stk)
      [] OTHER -> OErr(c1, JaclDeErrorNew(c1))

AnyChar(c1, nc, vis, stk) ==
    IF nc.st = "err" THEN OErr(c1, nc.pos) ELSE AnyOf(c1, Ch(nc), vis, stk)

AnyAt(c1, vis, stk) == AnyChar(c1, next_char(c1), vis, stk)

deserialize_any(c, vis, stk) ==
    AnyAt(IF c.pre = None THEN skip_non_tokens(c) ELSE c, vis, stk)

\* deserialize_enum, deserialize_char, deserialize_bytes: unimplemented!();
\* deserialize_unit and its kin: an error.
deserialize_unsupported(c, vis, stk) ==
    IF vis.t = "unit" THEN OErr(c, JaclDeErrorNew(c)) ELSE OPanic(c)

\* The method T::deserialize calls for each target.
Method(ty) ==
    CASE ty.t = "bool" -> "bool"
      [] ty.t = "int" -> "int"
      [] ty.t = "float" -> "float"
      [] ty.t = "string" -> "string"
      [] ty.t = "ident" -> "identifier"
      [] ty.t = "option" -> "option"
      [] ty.t \in {"vec", "tuple"} -> "seq"
      [] ty.t = "map" -> "map"
      [] ty.t = "struct" -> "struct"
      [] ty.t \in {"value", "literal", "number", "ignored"} -> "any"
      [] OTHER -> "unsupported"

\* T::deserialize(&mut deserializer) through the method m.
Call(m, c, ty, stk) ==
    CASE m = "bool" -> deserialize_bool(c, ty, stk)
      [] m = "int" -> deserialize_int(c, ty.w, ty, stk)
      [] m = "float" -> deserialize_float(c, ty, stk)
      [] m = "string" -> deserialize_string(c, ty, stk)
      [] m = "identifier" -> deserialize_identifier(c, ty, stk)
      [] m = "option" -> deserialize_option(c, ty, stk)
      [] m = "seq" -> deserialize_seq(c, ty, stk)
      [] m = "map" -> deserialize_map(c, ty, stk)
      [] m = "struct" -> deserialize_struct(c, ty, stk)
      [] m = "any" -> deserialize_any(c, ty, stk)
      [] OTHER -> deserialize_unsupported(c, ty, stk)

Deserialize(c, ty, stk) == Call(Method(ty), c, ty, stk)

-----------------------------------------------------------------------------
\* The container iteration protocol (Separated)

\* What visit_seq returns once next_element gave None.
SeqEnd(c, f, stk) ==
    IF f.ty.t = "tuple" THEN OPanic(c)
    ELSE Deliver(c, stk, Visited(f.ty, VSeq(f.acc)))

SeqClosed(pd, f, stk) ==
    IF pd.st = "err" THEN OErr(pd.d, pd.pos) ELSE SeqEnd(pd.d, f, stk)

ElementAt(c, nc, f, stk) ==
    IF nc.st = "err" THEN OErr(c, nc.pos)
    ELSE IF Ch(nc) = "]" THEN SeqClosed(parse_delim(c), f, stk)
    ELSE ORun(c, <<DeFrame(ElemTy(f.ty, Len(f.acc))), f>> \o stk)

next_element_seed(c, f, stk) == ElementAt(c, next_char(c), f, stk)

\* What visit_map returns once next_key gave None: a derived struct fills an
\* absent Option field with None and reports any other absent field through
\* Error::custom.
Filled(f) ==
    [n \in FieldNames(f.ty) |-> IF n \in DOMAIN f.acc THEN f.acc[n] ELSE VNone]

MapEnd(c, f, stk) ==
    IF f.ty.t = "struct"
    THEN IF \E n \in FieldNames(f.ty) \ DOMAIN f.acc : FieldTy(f.ty, n).t # "option"
         THEN OPanic(c)
         ELSE Deliver(c, stk, VStruct(Filled(f)))
    ELSE Deliver(c, stk, Visited(f.ty, VMap(f.acc)))

\* Separated::size_hint: Some(0) for a struct frame, None for a map or a
\* sequence frame (an Option<usize> as a sequence of at most one number).
size_hint(dt) == IF dt = "STRUCT" THEN <<0>> ELSE <<>>

\* A loop that takes either closing bracket for its own (a faulty variant of
\* IsTerminator).
IsAnyTerminator(ch, dt) == ch \in {"}", ")"}
IsTerminator(ch, dt) ==
    (ch = "}" /\ dt = "HASHMAP") \/ (ch = ")" /\ dt = "STRUCT")

KeyAt(pd, f, stk) ==
    IF pd.st = "ok"
    THEN IF IsTerminator(Ch(pd), f.dt) THEN MapEnd(pd.d, f, stk)
         ELSE OErr(pd.d, JaclDeErrorNew(pd.d))
    ELSE ORun(pd.d, <<DeFrame(KeyTy(f.ty)), f>> \o stk)

next_key_seed(c, f, stk) == KeyAt(parse_delim(c), f, stk)

ValueAt(pd, f, stk) ==
    IF pd.st = "ok" /\ Ch(pd) = ":"
    THEN ORun(pd.d, <<DeFrame(ValTy(f.ty, f.key)), f>> \o stk)
    ELSE OErr(pd.d, JaclDeErrorNew(pd.d))

next_value_seed(c, f, stk) == ValueAt(parse_delim(c), f, stk)

-----------------------------------------------------------------------------
\* from_str

NoResult == [kind |-> "none", val |-> NoVal, line |-> 0, col |-> 0]
Ok(v) == [kind |-> "ok", val |-> v, line |-> 0, col |-> 0]
Err(pos) == [kind |-> "err", val |-> NoVal, line |-> pos.line, col |-> pos.col]
Panic == [kind |-> "panic", val |-> NoVal, line |-> 0, col |-> 0]

\* The check after T::deserialize returned t.
FromStrEnd(c, t) ==
    IF c.input = <<>> THEN Ok(t) ELSE Err(JaclDeErrorNew(c))

\* One step of the call: the method the innermost frame is about to call.
StepFrame(c, f, rest) ==
    CASE f.f = "de" -> Deserialize(c, f.ty, rest)
      [] f.f = "seq" -> next_element_seed(c, f, rest)
      [] f.f = "key" -> next_key_seed(c, f, rest)
      [] f.f = "value" -> next_value_seed(c, f, rest)

StepOut(c, stk) == StepFrame(c, Head(stk), Tail(stk))

RECURSIVE RunFrom(_, _)
Outcome(o) ==
    CASE o.st = "run" -> RunFrom(o.d, o.stack)
      [] o.st = "ret" -> FromStrEnd(o.d, o.val)
      [] o.st = "err" -> Err(o.pos)
      [] o.st = "panic" -> Panic
RunFrom(c, stk) == Outcome(StepOut(c, stk))

\* from_str::<T>(s) as a function of the source text and the target.
FromStr(doc, ty) == RunFrom(DeserializerFromStr(doc), <<DeFrame(ty)>>)

-----------------------------------------------------------------------------
\* The documents and targets the calls are made with

MaxSepRun == 2
MaxElems == 3
MaxStrLen == 3

Quote == "\""
Bs == "\\"

RECURSIVE Flatten(_)
Flatten(ss) == IF ss = <<>> THEN <<>> ELSE Head(ss) \o Flatten(Tail(ss))

SepAlphabet == <<" ", ",", "\n", "\t", "\r">>

\* A run of n separators starting at the k-th of the alphabet.
SepRun(k, n) == [i \in 1..n |-> SepAlphabet[((k + i - 2) % Len(SepAlphabet)) + 1]]
SepRuns1 == {SepRun(k, n) : k \in 1..Len(SepAlphabet), n \in 1..MaxSepRun}
SepRuns == {<<>>} \cup SepRuns1

\* One call: the family the document was drawn from, the document, the target,
\* and what the family records about it (a base text, a value, a rank, a flag).
CaseOf(fam, doc, ty, base, exp, n, neg) ==
    [fam |-> fam, doc |-> doc, ty |-> ty, base |-> base, exp |-> exp, n |-> n, neg |-> neg]
Case(fam, doc, ty, base, exp) == CaseOf(fam, doc, ty, base, exp, 0, FALSE)

U8 == TInt("u8")
U64 == TInt("u64")
Chars_true == <<"t", "r", "u", "e">>
Chars_false == <<"f", "a", "l", "s", "e">>
Chars_null == <<"n", "u", "l", "l">>
Str(s) == <<Quote>> \o s \o <<Quote>>
MaxU64 == Dec(<<1, 8, 4, 4, 6, 7, 4, 4, 0, 7, 3, 7, 0, 9, 5, 5, 1, 6, 1, 5>>)

\* Single literals of the grammar, each with its matching target and value.
Lit(txt, ty, val) == [txt |-> txt, ty |-> ty, val |-> val]
LitTable ==
    { Lit(Chars_true, TBool, VBool(TRUE)),
      Lit(Chars_false, TBool, VBool(FALSE)),
      Lit(<<"1">>, U8, VInt(<<"1">>)),
      Lit(<<"-", "1", "2">>, TInt("i8"), VInt(<<"-", "1", "2">>)),
      Lit(<<"1", "_", "0">>, U8, VInt(<<"1", "0">>)),
      Lit(MaxU64, U64, VInt(MaxU64)),
      Lit(<<"1", ".", "0">>, TFloat, VFlt(<<"1">>, 0)),
      Lit(<<".", "5">>, TFloat, VFlt(<<"5">>, -1)),
      Lit(<<"1", "e", "2">>, TFloat, VFlt(<<"1">>, 2)),
      Lit(<<"1", ".", "5", "e", "-", "1">>, TFloat, VFlt(<<"1", "5">>, -2)),
      Lit(<<"4", "2", ".">>, TFloat, VFlt(<<"4", "2">>, 0)),
      Lit(<<"1", "_", "0", ".", "5">>, TFloat, VFlt(<<"1", "0", "5">>, -1)),
      Lit(Str(<<"t", "e", "s", "t">>), TString, VStr(<<"t", "e", "s", "t">>)),
      Lit(Str(<<>>), TString, VStr(<<>>)),
      Lit(Str(<<"a", " ", ":", "1">>), TString, VStr(<<"a", " ", ":", "1">>)) }

LitCases ==
    {Case("lit", a \o l.txt \o b, l.ty, l.txt, l.val) :
        l \in LitTable, a \in SepRuns, b \in SepRuns}

\* Documents that drive every decode operation at least once.
TestStruct ==
    TStruct(<<Field(<<"i", "n", "t">>, TInt("u32")),
              Field(<<"v", "e", "c">>, TVec(TString)),
              Field(<<"o", "p", "t">>, TOption(TBool))>>)
TestStructDoc ==
    <<"(", "i", "n", "t", " ", ":", " ", "1", "\n", "v", "e", "c", ":", "[">>
    \o Str(<<"h">>) \o <<",", "]", " ", "x", ":", "[", "1", "]", ")">>

CoverCases ==
    { Case("cover", TestStructDoc, TestStruct, <<>>, NoVal),
      Case("cover", <<"{">> \o Str(<<"a">>) \o <<":", "1", "}">>, TMap(U8), <<>>, NoVal),
      Case("cover", <<"[", "1", ".", "5", " ", "t", "r", "u", "e", "]">>, TValue, <<>>, NoVal),
      Case("cover", <<"1">>, TOption(U8), <<>>, NoVal),
      Case("cover", <<"1">>, TEnum, <<>>, NoVal),
      Case("cover", <<"1">>, TUnit, <<>>, NoVal) }

\* tokens joined by the separator run sep.
RECURSIVE Join(_, _)
Join(toks, sep) ==
    IF Len(toks) <= 1 THEN Flatten(toks)
    ELSE Head(toks) \o sep \o Join(Tail(toks), sep)

Letters == <<"a", "b", "c", "d", "e", "g", "h", "i", "j">>

\* Un-bracketed documents of two or more literals: the i-th literal of each
\* group, its value and the element target.
ElemGroups == {"u8", "str", "bool", "u64"}
ElemTarget(g) ==
    CASE g = "u8" -> U8 [] g = "str" -> TString [] g = "bool" -> TBool [] g = "u64" -> U64
ElemTxt(g, i) ==
    CASE g = "u8" -> <<DigitChars[i + 1]>>
      [] g = "str" -> Str(<<Letters[i]>>)
      [] g = "bool" -> (IF i % 2 = 1 THEN Chars_true ELSE Chars_false)
      [] g = "u64" -> (IF i = 1 THEN MaxU64 ELSE <<DigitChars[i + 1]>>)
ElemVal(g, i) ==
    CASE g = "u8" -> VInt(<<DigitChars[i + 1]>>)
      [] g = "str" -> VStr(<<Letters[i]>>)
      [] g = "bool" -> VBool(i % 2 = 1)
      [] g = "u64" -> VInt(IF i = 1 THEN MaxU64 ELSE <<DigitChars[i + 1]>>)

SeqCases ==
    {Case("seq", Join([i \in 1..n |-> ElemTxt(g, i)], s), TVec(ElemTarget(g)),
          <<"[">> \o Join([i \in 1..n |-> ElemTxt(g, i)], s) \o <<"]">>,
          VSeq([i \in 1..n |-> ElemVal(g, i)])) :
        g \in ElemGroups, n \in 2..MaxElems, s \in SepRuns1}

\* Un-bracketed key : value documents against a map target, the keys written
\* bare ("mapbare") or as string literals ("map").
Entry(key, s1, s2, i) == key \o s1 \o <<":">> \o s2 \o <<DigitChars[i + 1]>>
Gaps == {<<>>, <<" ">>}
MapVal(n) == VMap([k \in {<<Letters[i]>> : i \in 1..n} |->
                    VInt(<<DigitChars[(CHOOSE i \in 1..n : <<Letters[i]>> = k) + 1]>>)])
MapCases ==
    {Case("map", Join([i \in 1..n |-> Entry(Str(<<Letters[i]>>), s1, s2, i)], <<" ">>),
          TMap(U8), <<>>, MapVal(n)) : n \in 1..2, s1 \in Gaps, s2 \in Gaps}
    \cup
    {Case("mapbare", Join([i \in 1..n |-> Entry(<<Letters[i]>>, s1, s2, i)], <<" ">>),
          TMap(U8), <<>>, MapVal(n)) : n \in 1..2, s1 \in Gaps, s2 \in Gaps}

\* Un-bracketed identifier : value documents against a struct target with
\* those fields; the first field name ranges over FirstNames.
FirstNames ==
    { <<"a">>, <<"a", "b">>, <<"t">>, <<"n">>, <<"f", "1">>, <<"_", "x">>,
      Chars_true \o <<"_", "x">>, Chars_null \o <<"a", "b", "l", "e">>,
      Chars_false \o <<"y">> }
RecCases ==
    {Case("rec", Entry(nm, s1, <<>>, 1), TStruct(<<Field(nm, U8)>>), <<>>,
          VStruct(nm :> VInt(<<"1">>))) : nm \in FirstNames, s1 \in Gaps}
    \cup
    {Case("rec", Entry(nm, <<>>, <<>>, 1) \o <<"\n">> \o Entry(<<"z">>, <<>>, <<>>, 2),
          TStruct(<<Field(nm, U8), Field(<<"z">>, U8)>>), <<>>,
          VStruct((nm :> VInt(<<"1">>)) @@ (<<"z">> :> VInt(<<"2">>)))) : nm \in FirstNames}

\* Valid documents as lists of tokens and required separators; every boundary
\* between two pieces, and both ends, is a separator position.
Base(pieces, ty) == [pieces |-> pieces, ty |-> ty]
StructA == TStruct(<<Field(<<"a">>, U8)>>)
Bases ==
    { Base(<<<<"[">>, <<"1">>, <<" ">>, <<"2">>, <<" ">>, <<"3">>, <<"]">>>>, TVec(U8)),
      Base(<<<<"[">>, Chars_null, <<"]">>>>, TVec(TOption(U8))),
      Base(<<Chars_null>>, TOption(TInt("u32"))),
      Base(<<<<"(">>, <<"a">>, <<":">>, <<"1">>, <<")">>>>, StructA),
      Base(<<<<"{">>, Str(<<"a">>), <<":">>, <<"1">>, <<"}">>>>, TMap(U8)),
      Base(<<Str(<<"x">>)>>, TString),
      Base(<<<<"1">>, <<" ">>, <<"2">>>>, TVec(U8)),
      Base(<<Chars_true>>, TBool),
      Base(<<<<"a">>, <<":">>, <<"1">>>>, StructA) }

\* The base with the text ins put in at its k-th separator position.
Inserted(pieces, k, ins) ==
    Flatten(SubSeq(pieces, 1, k)) \o ins \o Flatten(SubSeq(pieces, k + 1, Len(pieces)))

Positions(b) == 0..Len(b.pieces)

SepCases ==
    UNION {{Case("sep", Inserted(b.pieces, k, run), b.ty, Flatten(b.pieces), NoVal) :
                k \in Positions(b), run \in SepRuns1} : b \in Bases}

BlockComment == <<"/", "*", "c", " ", "*", "/">>
LineComment == <<"/", "/", "c">>
CmtCases ==
    UNION {{Case("cmt", Inserted(b.pieces, k, c), b.ty, Flatten(b.pieces), NoVal) :
                k \in Positions(b), c \in {BlockComment, LineComment \o <<"\n">>}} :
           b \in Bases}
    \cup
    {Case("cmt", Flatten(b.pieces) \o LineComment, b.ty, Flatten(b.pieces), NoVal) :
        b \in Bases}

\* String literals over escaped characters, raw line breaks and plain
\* characters, each item with the characters it denotes.
Item(src, val) == [src |-> src, val |-> val]
Items ==
    { Item(<<"a">>, <<"a">>), Item(<<"\n">>, <<"\n">>), Item(<<"\r">>, <<"\r">>),
      Item(<<Bs, Bs>>, <<Bs>>), Item(<<Bs, "n">>, <<"\n">>), Item(<<Bs, Quote>>, <<Quote>>) }
Contents == UNION {[1..n -> Items] : n \in 0..MaxStrLen}
SrcOf(its) == Flatten([i \in 1..Len(its) |-> its[i].src])
ValOfItems(its) == Flatten([i \in 1..Len(its) |-> its[i].val])
Test == <<"t", "e", "s", "t">>
StrCases ==
    {Case("str", Str(SrcOf(its)), TString, <<>>, VStr(ValOfItems(its))) : its \in Contents}
    \cup
    {Case("str", <<"\n">> \o Str(Test \o <<"\n">> \o Test \o <<"\n">>), TString, <<>>,
          VStr(Test \o <<"\n">> \o Test \o <<"\n">>))}

\* A value that decodes, a gap, and text that is no part of it.
Spaces6 == <<" ", " ", " ", " ", " ", " ">>
Decoded(txt, ty) == [txt |-> txt, ty |-> ty]
Eacute == "U+00E9"
Prefixes ==
    { Decoded(<<"[", "1", " ", "2", " ", "3", "]">>, TVec(U64)),
      Decoded(<<"[", "1", "\n", "2", "]">>, TVec(U8)),
      Decoded(<<"[">> \o Str(<<Eacute>>) \o <<"]">>, TVec(TString)),
      Decoded(Str(<<Eacute, "a">>), TString),
      Decoded(Str(<<"a", "\n", "b">>), TString),
      Decoded(Chars_true, TBool),
      Decoded(<<"(", "a", ":", "1", ")">>, StructA) }
TrailGaps == {Spaces6, <<" ">>, <<"\n">>, <<"\n", " ">>}
Garbage == {<<"a", "b", "c">>, <<"}">>}
TrailCases ==
    {Case("trail", p.txt \o g \o x, p.ty, p.txt \o g, NoVal) :
        p \in Prefixes, g \in TrailGaps, x \in Garbage}

\* Integer literals at the edges of every width: the magnitudes in rising
\* order, so that the place of a magnitude in the list decides its range.
Edges ==
    << <<0>>, <<1>>, <<1, 2, 7>>, <<1, 2, 8>>, <<2, 5, 5>>, <<2, 5, 6>>,
       <<3, 2, 7, 6, 7>>, <<3, 2, 7, 6, 8>>, <<6, 5, 5, 3, 5>>, <<6, 5, 5, 3, 6>>,
       <<2, 1, 4, 7, 4, 8, 3, 6, 4, 7>>, <<2, 1, 4, 7, 4, 8, 3, 6, 4, 8>>,
       <<4, 2, 9, 4, 9, 6, 7, 2, 9, 5>>, <<4, 2, 9, 4, 9, 6, 7, 2, 9, 6>>,
       <<9, 2, 2, 3, 3, 7, 2, 0, 3, 6, 8, 5, 4, 7, 7, 5, 8, 0, 7>>,
       <<9, 2, 2, 3, 3, 7, 2, 0, 3, 6, 8, 5, 4, 7, 7, 5, 8, 0, 8>>,
       <<1, 8, 4, 4, 6, 7, 4, 4, 0, 7, 3, 7, 0, 9, 5, 5, 1, 6, 1, 5>>,
       <<1, 8, 4, 4, 6, 7, 4, 4, 0, 7, 3, 7, 0, 9, 5, 5, 1, 6, 1, 6>> >>
Widths == {"i8", "u8", "i16", "u16", "i32", "u32", "i64", "u64"}
\* The place in Edges of the largest value, and of the largest magnitude
\* below zero, of each width.
TopEdge(w) ==
    CASE w = "i8" -> 3 [] w = "u8" -> 5 [] w = "i16" -> 7 [] w = "u16" -> 9
      [] w = "i32" -> 11 [] w = "u32" -> 13 [] w = "i64" -> 15 [] w = "u64" -> 17
BottomEdge(w) ==
    CASE w = "i8" -> 4 [] w = "i16" -> 8 [] w = "i32" -> 12 [] w = "i64" -> 16
      [] OTHER -> 1
InRange(n, neg, w) == IF neg THEN n <= BottomEdge(w) ELSE n <= TopEdge(w)

Forms == {"plain", "zero", "underscore"}
Written(ds, form) ==
    CASE form = "plain" -> ds
      [] form = "zero" -> <<"0">> \o ds
      [] form = "underscore" ->
            (IF Len(ds) > 1 THEN <<Head(ds), "_">> \o Tail(ds) ELSE ds)
IntCases ==
    {CaseOf("int", (IF neg THEN <<"-">> ELSE <<>>) \o Written(Dec(Edges[n]), form),
            TInt(w), <<>>,
            VInt((IF neg /\ n > 1 THEN <<"-">> ELSE <<>>) \o Dec(Edges[n])), n, neg) :
        n \in 1..Len(Edges), neg \in BOOLEAN, form \in Forms, w \in Widths}

\* Documents that open a container and end before it is closed.
PairOfU8 == TTuple(<<U8, U8>>)
OpenCases ==
    { Case("open", <<"[", "1", " ", "2">>, TVec(U8), <<>>, NoVal),
      Case("open", <<"[", "1", " ", "2">>, PairOfU8, <<>>, NoVal),
      Case("open", <<"[", "1", " ", "2", " ">>, PairOfU8, <<>>, NoVal),
      Case("open", <<"[", "1">>, PairOfU8, <<>>, NoVal),
      Case("open", <<"[", "1", " ", "2">>, TValue, <<>>, NoVal),
      Case("open", <<"[">>, TVec(U8), <<>>, NoVal),
      Case("open", <<"[", "[", "1", "]">>, TVec(TVec(U8)), <<>>, NoVal),
      Case("open", <<"(", "a", ":", "1">>, StructA, <<>>, NoVal),
      Case("open", <<"(", "a", ":", "1", "\n">>, StructA, <<>>, NoVal),
      Case("open", <<"(", "a", ":">>, StructA, <<>>, NoVal),
      Case("open", <<"(">>, StructA, <<>>, NoVal),
      Case("open", <<"(", "u", "n", "t", "e", "r", "m", "i", "n", "a", "t", "e", "d">>,
           StructA, <<>>, NoVal),
      Case("open", <<"{">> \o Str(<<"a">>) \o <<":", "1">>, TMap(U8), <<>>, NoVal),
      Case("open", <<"{">> \o Str(<<"a">>) \o <<":", "1">>, TValue, <<>>, NoVal),
      Case("open", <<"{">>, TMap(U8), <<>>, NoVal) }

\* One-entry objects against the schema-less target: in parentheses and
\* un-bracketed, the key bare or a string literal.
OneEntry(key, s1, s2) == key \o s1 \o <<":">> \o s2 \o <<"0">>
A0 == <<"a">> :> VInt(<<"0">>)
FlavorCases ==
    {Case("flavor", <<"(">> \o OneEntry(<<"a">>, s1, s2) \o <<")">>, TValue, <<"(">>,
          VStruct(A0)) : s1 \in Gaps, s2 \in Gaps}
    \cup
    {Case("flavor", OneEntry(<<"a">>, s1, s2), TValue, <<>>, VMap(A0)) :
        s1 \in Gaps, s2 \in Gaps}
    \cup
    {Case("flavorstr", <<"(">> \o OneEntry(Str(<<"a">>), s1, s2) \o <<")">>, TValue,
          <<"(">>, VMap(A0)) : s1 \in Gaps, s2 \in Gaps}
    \cup
    {Case("flavorstr", OneEntry(Str(<<"a">>), s1, s2), TValue, <<>>, VMap(A0)) :
        s1 \in Gaps, s2 \in Gaps}

\* One token against an option target, between any runs of separators.
OptTable ==
    { Lit(Chars_null, TOption(TInt("u32")), VNone),
      Lit(<<"0">>, TOption(TInt("u32")), VSome(VInt(<<"0">>))),
      Lit(Chars_true, TOption(TBool), VSome(VBool(TRUE))),
      Lit(Str(<<"x">>), TOption(TString), VSome(VStr(<<"x">>))),
      Lit(Chars_null, TOption(TOption(TBool)), VNone) }
OptCases ==
    {CaseOf("opt", a \o l.txt \o b, l.ty, l.txt, l.val, Len(b), FALSE) :
        l \in OptTable, a \in SepRuns, b \in SepRuns}

\* Numeric literals of the grammar against the shape-free targets: integers,
\* and floats of each shape (decimal, trailing dot, leading dot, exponent).
NumTable ==
    { Lit(<<"1">>, "int", VInt(<<"1">>)),
      Lit(<<"0">>, "int", VInt(<<"0">>)),
      Lit(<<"-", "1", "2">>, "int", VInt(<<"-", "1", "2">>)),
      Lit(<<"1", "_", "0">>, "int", VInt(<<"1", "0">>)),
      Lit(<<"1", ".", "7", "5">>, "decimal", VFlt(<<"1", "7", "5">>, -2)),
      Lit(<<"1", ".", "0">>, "decimal", VFlt(<<"1">>, 0)),
      Lit(<<"-", "1", ".", "5">>, "decimal", VFlt(<<"-", "1", "5">>, -1)),
      Lit(<<"4", "2", ".">>, "decimal", VFlt(<<"4", "2">>, 0)),
      Lit(<<"1", ".", "5", "e", "-", "1">>, "decimal", VFlt(<<"1", "5">>, -2)),
      Lit(<<".", "5">>, "dot", VFlt(<<"5">>, -1)),
      Lit(<<".", "5", "e", "1">>, "dot", VFlt(<<"5">>, 0)),
      Lit(<<"1", "e", "2">>, "exp", VFlt(<<"1">>, 2)),
      Lit(<<"1", "E", "+", "2">>, "exp", VFlt(<<"1">>, 2)) }
AnyTargets == {TNumber, TLiteral, TValue}
NumCases ==
    {Case("num", a \o l.txt \o b, ty, l.txt, l.val) :
        l \in NumTable, ty \in AnyTargets, a \in Gaps, b \in Gaps}

\* Calls that cannot succeed: an unsupported shape, and documents the
\* consumer's own visitor refuses (a missing or repeated field, a value of a
\* kind the visitor has no method for, too few elements), next to documents
\* the decoder itself refuses.
FailCases ==
    { Case("fail", <<"1">>, TEnum, <<"enum">>, NoVal),
      Case("fail", Str(<<"a">>), TEnum, <<"enum">>, NoVal),
      Case("fail", <<"(", ")">>, StructA, <<"custom">>, NoVal),
      Case("fail", <<"(", "b", ":", "1", ")">>, StructA, <<"custom">>, NoVal),
      Case("fail", <<"b", ":", "1">>, StructA, <<"custom">>, NoVal),
      Case("fail", <<"(", "a", ":", "1", " ", "a", ":", "2", ")">>, StructA, <<"custom">>, NoVal),
      Case("fail", Chars_null, TValue, <<"custom">>, NoVal),
      Case("fail", Chars_null, TNumber, <<"custom">>, NoVal),
      Case("fail", Chars_true, TNumber, <<"custom">>, NoVal),
      Case("fail", Str(<<"a">>), TNumber, <<"custom">>, NoVal),
      Case("fail", <<"[", "1", "]">>, TLiteral, <<"custom">>, NoVal),
      Case("fail", <<"[", "1", "]">>, PairOfU8, <<"custom">>, NoVal),
      Case("fail", <<"[", "]">>, PairOfU8, <<"custom">>, NoVal),
      Case("fail", <<"[", "[", "1", "]", "]">>, TVec(PairOfU8), <<"custom">>, NoVal),
      Case("fail", <<"a">>, TBool, <<"decoder">>, NoVal),
      Case("fail", <<"2", "5", "6">>, U8, <<"decoder">>, NoVal),
      Case("fail", <<"[", "1", " ", "x", "]">>, TVec(U8), <<"decoder">>, NoVal),
      Case("fail", <<"1">>, TUnit, <<"decoder">>, NoVal),
      Case("fail", <<>>, TValue, <<"decoder">>, NoVal) }

\* Documents the prober wraps in a virtual bracket, against targets of another
\* shape.
Wrappable ==
    { <<"1", " ", "2">>, Chars_true \o <<" ">> \o Chars_false,
      Str(<<"a">>) \o <<":", "1">>, <<"a", ":", "1">>, <<"a">> }
OtherShapes ==
    { TBool, U8, TFloat, TString, TOption(U8), TVec(U8), TMap(U8), StructA, TNumber }
MismatchCases ==
    {Case("mismatch", doc, ty, <<>>, NoVal) : doc \in Wrappable, ty \in OtherShapes}

\* Records with a field the target does not have, whose value the derived
\* visitor decodes and drops (serde's IgnoredAny), and that target alone.
UnknownValues == {<<"2">>, Str(<<"x">>), Chars_null, <<"[", "1", "]">>, <<"n">>, <<"n", "o">>}
IgnoredCases ==
    {Case("ignored", <<"(", "b", ":">> \o v \o <<" ", "a", ":", "1", ")">>, StructA, v,
          VStruct(<<"a">> :> VInt(<<"1">>))) : v \in UnknownValues}
    \cup
    {Case("ignored", v, TIgnored, v, Val("ignored", <<>>)) : v \in UnknownValues}

\* Maps and structs, well formed and with a wrong delimiter where an entry
\* or a colon is due; exp is NoVal for the malformed ones.
QA == Str(<<"a">>)
MapA1 == VMap(<<"a">> :> VInt(<<"1">>))
StructA1 == VStruct(<<"a">> :> VInt(<<"1">>))
OptA == TStruct(<<Field(<<"a">>, TOption(U8))>>)
ProtoCases ==
    { Case("proto", <<"(", "a", ":", "1", ")">>, StructA, <<>>, StructA1),
      Case("proto", <<"(", " ", "a", " ", ":", " ", "1", " ", ")">>, StructA, <<>>, StructA1),
      Case("proto", <<"(", ")">>, OptA, <<>>, VStruct(<<"a">> :> VNone)),
      Case("proto", <<"{">> \o QA \o <<":", "1", "}">>, TMap(U8), <<>>, MapA1),
      Case("proto", <<"{">> \o QA \o <<":", "1", "}">>, TValue, <<>>, MapA1),
      Case("proto", <<"{", "}">>, TMap(U8), <<>>, VMap(EmptyMap)),
      Case("proto", <<"a", ":", "1">>, StructA, <<>>, StructA1),
      Case("proto", QA \o <<":", "1">>, TMap(U8), <<>>, MapA1),
      Case("proto", <<"(", "a", ":", "1", "}">>, StructA, <<"}">>, NoVal),
      Case("proto", <<"(", "a", ":", "1", "]">>, StructA, <<"]">>, NoVal),
      Case("proto", <<"(", "a", ":", "1", " ", ":", ")">>, StructA, <<":">>, NoVal),
      Case("proto", <<"(", "a", ":", "1", " ", "(", ")">>, StructA, <<"(">>, NoVal),
      Case("proto", <<"(", "}", ")">>, OptA, <<"}">>, NoVal),
      Case("proto", <<"(", ":", "a", " ", "1", ")">>, StructA, <<":">>, NoVal),
      Case("proto", <<"a", ":", "1", "}">>, StructA, <<"}">>, NoVal),
      Case("proto", <<"{">> \o QA \o <<":", "1", ")">>, TMap(U8), <<")">>, NoVal),
      Case("proto", <<"{">> \o QA \o <<":", "1", ")">>, TValue, <<")">>, NoVal),
      Case("proto", <<"{">> \o QA \o <<":", "1", "]", "}">>, TMap(U8), <<"]">>, NoVal),
      Case("proto", <<"{", ")", "}">>, TMap(U8), <<")">>, NoVal),
      Case("proto", QA \o <<":", "1", ")">>, TMap(U8), <<")">>, NoVal),
      Case("proto", <<"(", "a", " ", "1", ")">>, StructA, <<"colon">>, NoVal),
      Case("proto", <<"(", "a", ")">>, StructA, <<"colon">>, NoVal),
      Case("proto", <<"(", "a", "}", "1", ")">>, StructA, <<"colon">>, NoVal),
      Case("proto", <<"(", "a">>, StructA, <<"colon">>, NoVal),
      Case("proto", <<"{">> \o QA \o <<" ", "1", "}">>, TMap(U8), <<"colon">>, NoVal),
      Case("proto", <<"{">> \o QA \o <<"}">>, TMap(U8), <<"colon">>, NoVal),
      Case("proto", <<"{">> \o QA \o <<"}">>, TValue, <<"colon">>, NoVal),
      Case("proto", <<"{">> \o QA \o <<"[", "1", "]", "}">>, TValue, <<"colon">>, NoVal) }

\* Nested sequences against list and fixed-arity targets, some with a closing
\* bracket missing.
PairField == TStruct(<<Field(<<"p">>, PairOfU8)>>)
CloseCases ==
    { Case("close", <<"[", "1", " ", "2", "]">>, TVec(U8), <<>>, NoVal),
      Case("close", <<"[", "1", " ", "2", "]">>, PairOfU8, <<>>, NoVal),
      Case("close", <<"[", "1", " ", "2">>, PairOfU8, <<>>, NoVal),
      Case("close", <<"[", "1", " ", "2">>, TVec(U8), <<>>, NoVal),
      Case("close", <<"[", "[", "1", " ", "2", "]", "]">>, TVec(PairOfU8), <<>>, NoVal),
      Case("close", <<"[", "[", "1", " ", "2", "]", "]">>, TVec(TVec(U8)), <<>>, NoVal),
      Case("close", <<"[", "[", "1", " ", "2", "]">>, TVec(PairOfU8), <<>>, NoVal),
      Case("close", <<"[", "[", "1", " ", "2", "]">>, TVec(TVec(U8)), <<>>, NoVal),
      Case("close", <<"[", "[", "1", " ", "2", "]", " ", "[", "3", " ", "4", "]", "]">>,
           TVec(PairOfU8), <<>>, NoVal),
      Case("close", <<"[", "[", "1", " ", "2", "]", " ", "[", "3", " ", "4", "]", "]">>,
           TVec(TVec(U8)), <<>>, NoVal),
      Case("close", <<"(", "p", ":", "[", "1", " ", "2", "]", ")">>, PairField, <<>>, NoVal),
      Case("close", <<"(", "p", ":", "[", "1", " ", "2", ")">>, PairField, <<>>, NoVal),
      Case("close", <<"[", "1", " ", "2", " ", "3", "]">>, PairOfU8, <<>>, NoVal),
      Case("close", <<"1", " ", "2">>, PairOfU8, <<>>, NoVal) }

\* Texts over a quote, a backslash, a letter and a space, against a string
\* target.
MaxScanLen == 5
ScanAlphabet == {Quote, Bs, "a", " "}
ScanTexts == UNION {[1..n -> ScanAlphabet] : n \in 0..MaxScanLen}
ScanCases ==
    {Case("scan", t, TString, <<>>, NoVal) : t \in ScanTexts}
    \cup
    { Case("scan", <<Quote, Bs, "\n", Quote>>, TString, <<>>, NoVal),
      Case("scan", <<Quote, Bs, "\n", Quote, "a", Quote>>, TString, <<>>, NoVal) }

\* One-field records in parentheses, the field name an identifier of the
\* grammar (letters of either case, digits behind the first character,
\* underscores) or a text that is none (neg).
FieldNameTexts ==
    { <<"a", "b">>, <<"a", "1">>, <<"_", "x">>, <<"x", "_", "1">>, <<"_">>,
      <<"A", "b">>, <<"a", "B">>, <<"A">>, <<"a", "_", "B">>,
      <<"u", "s", "e", "r", "N", "a", "m", "e">>, <<"X", "1">> }
NoFieldNameTexts == { <<"1", "a">>, <<"-", "a">>, <<"1">> }
FieldDoc(nm, s1) == <<"(">> \o s1 \o nm \o s1 \o <<":", "1", ")">>
FieldCases ==
    {CaseOf("field", FieldDoc(nm, s1), TStruct(<<Field(nm, U8)>>), nm,
            VStruct(nm :> VInt(<<"1">>)), 0, FALSE) : nm \in FieldNameTexts, s1 \in Gaps}
    \cup
    {CaseOf("field", FieldDoc(nm, s1), TStruct(<<Field(nm, U8)>>), nm, NoVal, 0, TRUE) :
        nm \in NoFieldNameTexts, s1 \in Gaps}

\* Un-bracketed documents, some carrying a closing bracket that no opening
\* bracket of the text matches.
VirtCases ==
    { Case("virt", <<"1", " ", "2">>, TVec(U8), <<>>, NoVal),
      Case("virt", <<"1", " ", "2", " ">>, TVec(U8), <<>>, NoVal),
      Case("virt", <<"1", " ", "2", " ", "]">>, TVec(U8), <<>>, NoVal),
      Case("virt", <<"1", " ", "2", "]">>, TVec(U8), <<>>, NoVal),
      Case("virt", <<"1", " ", "2", "]", "]">>, TVec(U8), <<>>, NoVal),
      Case("virt", <<"1", " ", "2", " ", "]", " ", "3">>, TVec(U8), <<>>, NoVal),
      Case("virt", <<"1", " ", "2", " ", "]">>, TValue, <<>>, NoVal),
      Case("virt", <<"1", " ", "2">>, TValue, <<>>, NoVal),
      Case("virt", <<"1", " ", "2">>, PairOfU8, <<>>, NoVal),
      Case("virt", <<"a", ":", "1">>, StructA, <<>>, NoVal),
      Case("virt", <<"a", ":", "1", " ", ")">>, StructA, <<>>, NoVal),
      Case("virt", <<"a", ":", "1", " ", "]">>, StructA, <<>>, NoVal),
      Case("virt", QA \o <<":", "1">>, TMap(U8), <<>>, NoVal),
      Case("virt", QA \o <<":", "1", " ", "}">>, TMap(U8), <<>>, NoVal),
      Case("virt", QA \o <<":", "1", " ", "}">>, TValue, <<>>, NoVal),
      Case("virt", QA \o <<":", "1", " ", ")">>, TMap(U8), <<>>, NoVal) }

Cases ==
    CoverCases \cup LitCases \cup SeqCases \cup MapCases \cup RecCases \cup SepCases
    \cup CmtCases \cup StrCases \cup TrailCases \cup IntCases \cup OpenCases
    \cup FlavorCases \cup OptCases \cup NumCases
    \cup FailCases \cup MismatchCases \cup IgnoredCases
    \cup ProtoCases \cup CloseCases \cup ScanCases
    \cup FieldCases \cup VirtCases

-----------------------------------------------------------------------------
\* The state machine of one from_str call

Init ==
    /\ case \in Cases
    /\ pc = "start"
    /\ d = NewDeserializer(None, case.doc, None)
    /\ stack = <<>>
    /\ result = NoResult

\* from_str, line 157: Deserializer::from_str(&s), the root-shape probe.
Probe ==
    /\ pc = "start"
    /\ d' = DeserializerFromStr(case.doc)
    /\ stack' = <<DeFrame(case.ty)>>
    /\ pc' = "run"
    /\ UNCHANGED <<case, result>>

Pending(v) == [kind |-> "ret", val |-> v, line |-> 0, col |-> 0]

Apply(o) ==
    /\ d' = o.d
    /\ stack' = o.stack
    /\ pc' = CASE o.st = "run" -> "run" [] o.st = "ret" -> "finish" [] OTHER -> "done"
    /\ result' = CASE o.st = "run" -> result
                   [] o.st = "ret" -> Pending(o.val)
                   [] o.st = "err" -> Err(o.pos)
                   [] OTHER -> Panic
    /\ UNCHANGED case

\* T::deserialize is about to call the method m.
Calling(m) ==
    /\ pc = "run"
    /\ Head(stack).f = "de"
    /\ Method(Head(stack).ty) = m

\* The visitor loop of the innermost frame is about to call step.
Looping(step) == pc = "run" /\ Head(stack).f = step

Ty == Head(stack).ty
Rest == Tail(stack)

DeserializeBool == Calling("bool") /\ Apply(deserialize_bool(d, Ty, Rest))
DeserializeInt == Calling("int") /\ Apply(deserialize_int(d, Ty.w, Ty, Rest))
DeserializeFloat == Calling("float") /\ Apply(deserialize_float(d, Ty, Rest))
DeserializeString == Calling("string") /\ Apply(deserialize_string(d, Ty, Rest))
DeserializeIdentifier == Calling("identifier") /\ Apply(deserialize_identifier(d, Ty, Rest))
DeserializeOption == Calling("option") /\ Apply(deserialize_option(d, Ty, Rest))
DeserializeSeq == Calling("seq") /\ Apply(deserialize_seq(d, Ty, Rest))
DeserializeMap == Calling("map") /\ Apply(deserialize_map(d, Ty, Rest))
DeserializeStruct == Calling("struct") /\ Apply(deserialize_struct(d, Ty, Rest))
DeserializeAny == Calling("any") /\ Apply(deserialize_any(d, Ty, Rest))
DeserializeUnsupported == Calling("unsupported") /\ Apply(deserialize_unsupported(d, Ty, Rest))

NextElementSeed == Looping("seq") /\ Apply(next_element_seed(d, Head(stack), Rest))
NextKeySeed == Looping("key") /\ Apply(next_key_seed(d, Head(stack), Rest))
NextValueSeed == Looping("value") /\ Apply(next_value_seed(d, Head(stack), Rest))

\* from_str, lines 159-163: the check that the input is used up.
Finish ==
    /\ pc = "finish"
    /\ result' = FromStrEnd(d, result.val)
    /\ pc' = "done"
    /\ UNCHANGED <<case, d, stack>>

Next ==
    \/ Probe
    \/ DeserializeBool \/ DeserializeInt \/ DeserializeFloat \/ DeserializeString
    \/ DeserializeIdentifier \/ DeserializeOption \/ DeserializeSeq
    \/ DeserializeMap \/ DeserializeStruct \/ DeserializeAny
    \/ DeserializeUnsupported
    \/ NextElementSeed \/ NextKeySeed \/ NextValueSeed
    \/ Finish

Spec == Init /\ [][Next]_vars

-----------------------------------------------------------------------------
\* The claims

\* The state the prober leaves: T::deserialize has not been called yet.
Probed == pc = "run" /\ stack = <<DeFrame(case.ty)>>
\* from_str has returned.
Returned == pc = "done"

Unwrapped == d.pre = None /\ d.post = None
WrappedIn(open, close) == d.pre = open /\ d.post = close

\* C1: a document of one bool, integer, float or string literal between any
\* runs of separators gets no virtual bracket from the prober, and from_str
\* against the matching primitive target returns the literal's value.
C1_SingleLiteral ==
    case.fam = "lit" =>
        /\ Probed => Unwrapped
        /\ Returned => result = Ok(case.exp)

\* C2: an un-bracketed document of two or more literals is wrapped in a
\* virtual [ ] and decodes against a sequence target to the sequence of its
\* literals in source order, the same as the document in explicit brackets.
C2_ImpliedSequence ==
    case.fam = "seq" =>
        /\ Probed => WrappedIn("[", "]")
        /\ Returned => (result = Ok(case.exp) /\ result = FromStr(case.base, case.ty))

C4_ImpliedStruct ==
    case.fam = "rec" =>
        /\ Probed => WrappedIn("(", ")")
        /\ Returned => result = Ok(case.exp)

\* C5: a document that decodes to a value still decodes to that value with
\* an extra run of separators put in at any separator position.
C5_SeparatorIdempotence ==
    (case.fam = "sep" /\ Returned /\ FromStr(case.base, case.ty).kind = "ok") =>
        result = FromStr(case.base, case.ty)

\* C6: a document that decodes to a value still decodes to that value with a
\* line comment or a block comment put in at any separator position, the end
\* of the document included.
C6_CommentTransparency ==
    (case.fam = "cmt" /\ Returned /\ FromStr(case.base, case.ty).kind = "ok") =>
        result = FromStr(case.base, case.ty)

\* C7: a string literal with raw LF or CR characters between its quotes
\* decodes to the string holding those line breaks at the same places, a
\* line break right before the closing quote included.
C7_RawLineBreaks ==
    (case.fam = "str" /\ Returned) => result = Ok(case.exp)

C7_Witness ==
    /\ case.fam = "str"
    /\ Returned
    /\ case.doc[Len(case.doc) - 1] = "\n"
    /\ result.kind = "ok"
    /\ result.val.v # <<>>
    /\ result.val.v[Len(result.val.v)] = "\n"

\* What the positional report should say for a document read up to txt.
LFsIn(txt) == Cardinality({i \in 1..Len(txt) : txt[i] = "\n"})
LastLF(txt) == MaxOf({0} \cup {i \in 1..Len(txt) : txt[i] = "\n"})

\* C8: when the value decodes and significant input remains, from_str
\* returns an error whose line is 1 plus the LFs before the first unconsumed
\* character and whose col is the number of characters between the start of
\* that line and that character, multi-byte characters included.
C8_TrailingInput ==
    (case.fam = "trail" /\ Returned) =>
        /\ result.kind = "err"
        /\ result.line = 1 + LFsIn(case.base)
        /\ result.col = Len(case.base) - LastLF(case.base)

\* C9 as stated: an integer literal decodes to its value if and only if the
\* value is within the range of the target width, and is an error otherwise.
C9_RangeOnly ==
    (case.fam = "int" /\ Returned) =>
        IF InRange(case.n, case.neg, case.ty.w)
        THEN result = Ok(case.exp)
        ELSE result.kind = "err"

\* C9, amended: an integer literal decodes to its value if and only if the
\* value is within the range of the target width and, for an unsigned
\* target, the literal has no minus sign (-0 against u8 is an error);
\* otherwise from_str returns an error, never a wrapped or truncated value.
C9_RangeAndSign ==
    (case.fam = "int" /\ Returned) =>
        IF InRange(case.n, case.neg, case.ty.w) /\ (Signed(case.ty.w) \/ ~case.neg)
        THEN result = Ok(case.exp)
        ELSE result.kind = "err"

C9_Witness ==
    /\ case.fam = "int"
    /\ case.doc = <<"2", "5", "6">>
    /\ case.ty = U8
    /\ Returned
    /\ result.kind = "err"

\* C10: a document that opens a sequence, map or struct with an explicit
\* bracket and ends before the matching closing bracket is an error for
\* every target that drives the container.
C10_Unterminated ==
    (case.fam = "open" /\ Returned) => result.kind = "err"

\* C11: `(a:0)` against the schema-less target decodes to a struct-flavoured
\* value and `a:0` to a map-flavoured one, the frame of the first reporting a
\* known arity.
C11_StructVsMapFlavor ==
    case.fam = "flavor" =>
        /\ (Looping("key") /\ case.base = <<"(">>) => size_hint(Head(stack).dt) # <<>>
        /\ Returned => result = Ok(case.exp)

\* C12: against an option target a document whose token is `null` decodes to
\* None and any other document to Some of the wrapped value, with any run of
\* separators before and after the token.
C12_OptionDecoding ==
    (case.fam = "opt" /\ Returned) => result = Ok(case.exp)

\* C13: shape-free decoding of a numeric literal returns an integer value for
\* an integer literal and a float value for a float literal of any shape of
\* the grammar, the whole literal consumed.
C13_AnyNumber ==
    (case.fam = "num" /\ Returned) => result = Ok(case.exp)

\* C14: every failure of a decode call comes back to the caller of from_str
\* as an error value, a request for an enum and a failure the visitor raises
\* through Error::custom included: the process never aborts.
C14_FailuresAreErrors ==
    (case.fam = "fail" /\ Returned) => result.kind = "err"

\* A scanner that starts with skip_non_tokens is about to run while the
\* virtual open delimiter is pending.
ScannerPending ==
    /\ pc = "run"
    /\ d.pre # None
    /\ Head(stack).f = "de"
    /\ Method(Head(stack).ty) \in {"bool", "int", "float", "string", "identifier", "option"}

\* C15: no scanner that skips separators runs while the virtual open
\* delimiter of the prober is pending, and a virtual bracket that does not
\* match the requested shape ends the call with an error.
C15_AssertionHolds ==
    /\ ~ScannerPending
    /\ (case.fam = "mismatch" /\ Returned) => result.kind # "panic"

IsSuffix(s, t) == Len(s) <= Len(t) /\ s = Drop(t, Len(t) - Len(s))
\* A virtual delimiter stays as it is or goes from present to consumed.
OnlyConsumed(before, after) == after = before \/ (before # None /\ after = None)

\* C16: within one call the remaining input is a suffix of the source text
\* and never grows, a virtual delimiter only goes from present to consumed,
\* and the cursor the prober returns starts at the whole source text.
C16_CursorInvariant ==
    [][ /\ d'.begin = case.doc
        /\ IsSuffix(d'.input, d.input)
        /\ IsSuffix(d'.input, case.doc)
        /\ pc = "start" => d'.input = case.doc
        /\ pc # "start" => /\ OnlyConsumed(d.pre, d'.pre)
                           /\ OnlyConsumed(d.post, d'.post) ]_vars

\* An un-bracketed sequence has been decoded: the probe had read two literals
\* and the call has used up the input and both virtual delimiters.
C16_Witness ==
    /\ case.fam = "seq" /\ Returned /\ result.kind = "ok"
    /\ d.begin = case.doc /\ d.input = <<>> /\ d.pre = None /\ d.post = None

\* What a cursor still holds: the characters of the remaining input and the
\* pending virtual delimiters.
Measure(c) ==
    Len(c.input) + (IF c.pre # None THEN 1 ELSE 0) + (IF c.post # None THEN 1 ELSE 0)
\* How many options a target is wrapped in.
RECURSIVE Depth(_)
Depth(ty) == IF ty.t = "option" THEN 1 + Depth(ty.of) ELSE 0
\* The frame g on top after a step that took nothing from the cursor is the
\* decode of an inner value: of an element or a key of the loop f, or of
\* what the option of f wraps.
Inner(f, g) == g.f = "de" /\ (f.f # "de" \/ Depth(g.ty) < Depth(f.ty))
\* The outcome o of the step about to be taken ends the call, or leaves the
\* cursor holding less, or hands it unchanged to an inner decode.
Progressed(o) ==
    \/ o.st # "run"
    \/ Measure(o.d) < Measure(d)
    \/ Measure(o.d) = Measure(d) /\ Inner(Head(stack), Head(o.stack))

\* C17: every step of a from_str call ends the call, shortens the remaining
\* input, consumes a virtual delimiter, or hands the cursor to the decode of
\* an inner value, so that the steps of a call are bounded by the length of
\* the input and no loop runs forever.
C17_EveryStepProgresses ==
    pc = "run" => Progressed(StepOut(d, stack))

\* The next significant character of the cursor: the first one behind the
\* separators and comments, else the pending virtual close, else none.
SigOf(c, rest) ==
    IF rest # <<>> THEN Head(rest) ELSE IF c.post # None THEN c.post ELSE None
NextSig == SigOf(d, SkipRest(d.input))
\* The outcome o closes the container of the innermost frame: its value goes
\* to the frame below, or is what the call returns, or is refused by the
\* visitor that collected it.
Closes(o) ==
    \/ o.st \in {"ret", "panic"}
    \/ o.st = "run" /\ Len(o.stack) < Len(stack)
\* The outcome o starts the decode of one inner value for the same loop.
Decodes(o, step) ==
    /\ o.st = "run" /\ Len(o.stack) = Len(stack) + 1
    /\ o.stack[1].f = "de" /\ o.stack[2].f = step
\* next_key_seed by the next significant character.
OwnTerminator(dt) == IF dt = "HASHMAP" THEN "}" ELSE ")"
KeyProtocol(o, sig, dt) ==
    IF sig = OwnTerminator(dt) THEN Closes(o)
    ELSE IF sig \in DelimiterChars THEN o.st = "err"
    ELSE Decodes(o, "key")
\* next_value_seed by the next significant character.
ValueProtocol(o, sig) ==
    IF sig = ":" THEN Decodes(o, "value") ELSE o.st = "err"

\* C18: at an entry position of a map or a struct the container ends exactly
\* on its own terminator, any other delimiter fails the call, and anything
\* else starts one key; after the key a colon is required before the value
\* and its absence fails the call. Malformed documents decode to an error.
C18_EntryProtocol ==
    /\ Looping("key") => KeyProtocol(StepOut(d, stack), NextSig, Head(stack).dt)
    /\ Looping("value") => ValueProtocol(StepOut(d, stack), NextSig)
    /\ (case.fam = "proto" /\ Returned) =>
            IF case.exp = NoVal THEN result.kind = "err" ELSE result = Ok(case.exp)

\* A struct closed by the terminator of a map has been refused.
C18_Witness ==
    /\ case.fam = "proto" /\ case.doc = <<"(", "a", ":", "1", "}">>
    /\ Returned /\ result.kind = "err" /\ d.input = <<>>

\* The brackets of a text match: every closing bracket closes the innermost
\* open one, and none is left open.
Closer(c) == CASE c = "[" -> "]" [] c = "(" -> ")" [] c = "{" -> "}"
RECURSIVE Matches(_, _)
Matches(s, open) ==
    IF s = <<>> THEN open = <<>>
    ELSE IF Head(s) \in {"[", "(", "{"} THEN Matches(Tail(s), <<Closer(Head(s))>> \o open)
    ELSE IF Head(s) \in {"]", ")", "}"}
    THEN open # <<>> /\ Head(open) = Head(s) /\ Matches(Tail(s), Tail(open))
    ELSE Matches(Tail(s), open)
Balanced(s) == Matches(s, <<>>)

\* C19: a container decode that returns a value has consumed the container's
\* own closing bracket, for a list and for a fixed-arity tuple alike, so a
\* from_str that succeeds has matched every opening bracket of the document
\* with its own closing bracket.
C19_TerminatorConsumed ==
    (case.fam = "close" /\ Returned /\ result.kind = "ok") => Balanced(case.doc)

\* The string scanner as the quote rule describes it: the literal ends at the
\* first quote behind the opening one that has an even number of backslashes
\* right in front of it.
RECURSIVE BsRun(_, _)
BsRun(s, i) == IF i <= 2 \/ s[i - 1] # Bs THEN 0 ELSE 1 + BsRun(s, i - 1)
Closers(s) == {i \in 2..Len(s) : s[i] = Quote /\ BsRun(s, i) % 2 = 0}
CutAt(s, k) == Done(Drop(s, k), Flatten([i \in 1..(k - 2) |-> Stored(s[i + 1])]))
FirstUnescapedQuote(s) ==
    IF s = <<>> \/ Head(s) # Quote \/ Closers(s) = {} THEN Fail(s)
    ELSE CutAt(s, MinOf(Closers(s)))

\* C20: the string scanner ends a literal at the first quote behind the
\* opening one that is not escaped, a quote being escaped exactly when an odd
\* number of backslashes stands right in front of it; a text that does not
\* start with a quote, or has no such closing quote, is refused.
C20_FirstUnescapedQuote ==
    (case.fam = "scan" /\ pc # "start") =>
        parse_string(case.doc) = FirstUnescapedQuote(case.doc)

\* C21: the identifier scanner takes one letter or underscore and the longest
\* run of letters, digits and underscores behind it, letters of either case,
\* and refuses any other text; a struct field so named is read as one key.
C21_IdentifierShape ==
    (case.fam = "field" /\ Returned) =>
        IF case.neg
        THEN ~identifier(case.base \o <<":">>).ok /\ result.kind = "err"
        ELSE /\ identifier(case.base \o <<":">>) = Done(<<":">>, case.base)
             /\ result = Ok(case.exp)

\* C22: when from_str returns a value for a document the prober wrapped, the
\* virtual open and the virtual close have both been consumed, the virtual
\* close being what ended the implied container: a document with a closing
\* bracket of its own that nothing opened is not accepted.
C22_VirtualCloseConsumed ==
    (case.fam = "virt" /\ Returned /\ result.kind = "ok") =>
        /\ d.pre = None /\ d.post = None
        /\ Balanced(case.doc)

====
